---- MODULE Spec2Model ----
(***************************************************************************)
(* Ray / sphere intersection, camera rays and the two pixel consumers of   *)
(* src/src/main.rs, with the vector type of src/src/vec3.rs.               *)
(*                                                                         *)
(* f32 is modelled by exact real arithmetic.  A scalar is a value          *)
(* p + s*sqrt(D) with p, s, D rational (one square root per computation,   *)
(* the discriminant's), or NaN.  A rational is held as a mixed number      *)
(* w + n/d in lowest terms, so that the scene's numbers (denominators up   *)
(* to 510^2) stay inside TLC's integers.  Rounding of f32 is not modelled. *)
(***************************************************************************)
EXTENDS Integers, Sequences, FiniteSets, TLC

VARIABLES phase, sphere, rin, kscale, tcall, pcall, scaled,
          va, vb, products,
          binary, header, i, j, emitted, out, px, frame, control_flow, event, nevents

solver_vars == <<sphere, rin, kscale, tcall, pcall, scaled>>

vec_vars == <<va, vb, products>>

ppm_vars == <<binary, header, i, j, emitted, out>>

winit_vars == <<frame, control_flow, event, nevents>>

render_vars == <<ppm_vars, px, winit_vars>>

vars == <<phase, solver_vars, vec_vars, render_vars>>

(***************************************************************************)
(* Rationals: [w, n, d] is w + n/d with 0 <= n < d and gcd(n, d) = 1.      *)
(***************************************************************************)
RECURSIVE Gcd(_, _)
Gcd(a, b) == IF b = 0 THEN a ELSE Gcd(b, a % b)

Abs(n) == IF n < 0 THEN -n ELSE n

QLowest(w, n, d, g) == [w |-> w, n |-> n \div g, d |-> d \div g]

\* W + N/D for D > 0 and any N
QNorm(W, N, D) == QLowest(W + (N \div D), N % D, D, Gcd(D, N % D))

QInt(k) == [w |-> k, n |-> 0, d |-> 1]

Q0 == QInt(0)

Q1 == QInt(1)

QRatio(a, b) == QNorm(0, a, b)

QSign(a) == IF a.w < 0 THEN -1 ELSE IF a.w = 0 /\ a.n = 0 THEN 0 ELSE 1

QNeg(a) == IF a.n = 0 THEN QInt(-a.w) ELSE [w |-> -a.w - 1, n |-> a.d - a.n, d |-> a.d]

\* a + b over the least common denominator, g = gcd(a.d, b.d)
QAddLcd(a, b, g) ==
    QNorm(a.w + b.w, a.n * (b.d \div g) + b.n * (a.d \div g), (a.d \div g) * b.d)

QAdd(a, b) ==
    IF a.n = 0 THEN [b EXCEPT !.w = a.w + b.w]
    ELSE IF b.n = 0 THEN [a EXCEPT !.w = a.w + b.w]
    ELSE QAddLcd(a, b, Gcd(a.d, b.d))

QSub(a, b) == QAdd(a, QNeg(b))

\* (w1 + n1/d1)(w2 + n2/d2) = w1 w2 + (w1 n2 d1 + w2 n1 d2 + n1 n2)/(d1 d2)
QMul(a, b) ==
    IF a.n = 0 /\ b.n = 0 THEN QInt(a.w * b.w)
    ELSE QNorm(a.w * b.w, a.w * b.n * a.d + b.w * a.n * b.d + a.n * b.n, a.d * b.d)

\* (Na/da) / (Nb/db) for Nb > 0, cancelling g1 = gcd(Na, Nb) and g2 = gcd(da, db)
QDivLowest(Na, da, Nb, db, g1, g2) ==
    QNorm(0, (Na \div g1) * (db \div g2), (Nb \div g1) * (da \div g2))

QDivPos(Na, da, Nb, db) == QDivLowest(Na, da, Nb, db, Gcd(Nb, Abs(Na)), Gcd(da, db))

\* a/b for b # 0
QDiv(a, b) ==
    IF b.w * b.d + b.n > 0
    THEN QDivPos(a.w * a.d + a.n, a.d, b.w * b.d + b.n, b.d)
    ELSE QDivPos(-(a.w * a.d + a.n), a.d, -(b.w * b.d + b.n), b.d)

(***************************************************************************)
(* Scalars (f32): [nan, p, s, D] is p + s*sqrt(D), D >= 0 not a square     *)
(* when s # 0, and D = 0 when s = 0.  Every divisor in the program is      *)
(* 2a, a vector length or a constant, which is zero only together with     *)
(* its numerator, so x/0 is only ever 0/0 = NaN.                           *)
(***************************************************************************)
SQ(q) == [nan |-> FALSE, p |-> q, s |-> Q0, D |-> Q0]

F(k) == SQ(QInt(k))

NaN == [nan |-> TRUE, p |-> Q0, s |-> Q0, D |-> Q0]

SNorm(p, s, D) == IF s = Q0 THEN SQ(p) ELSE [nan |-> FALSE, p |-> p, s |-> s, D |-> D]

SRad(a, b) == IF a.s # Q0 THEN a.D ELSE b.D

SNeg(a) == IF a.nan THEN NaN ELSE SNorm(QNeg(a.p), QNeg(a.s), a.D)

SAdd(a, b) ==
    IF a.nan \/ b.nan THEN NaN
    ELSE IF a.s = Q0 /\ b.s = Q0 THEN SQ(QAdd(a.p, b.p))
    ELSE SNorm(QAdd(a.p, b.p), QAdd(a.s, b.s), SRad(a, b))

SSub(a, b) == SAdd(a, SNeg(b))

SMul(a, b) ==
    IF a.nan \/ b.nan THEN NaN
    ELSE IF a.s = Q0 /\ b.s = Q0 THEN SQ(QMul(a.p, b.p))
    ELSE LET D == SRad(a, b)
         IN  SNorm(QAdd(QMul(a.p, b.p), QMul(QMul(a.s, b.s), D)),
                   QAdd(QMul(a.p, b.s), QMul(b.p, a.s)), D)

\* a / b, b rational
SDiv(a, b) ==
    IF a.nan \/ b.nan \/ b.p = Q0 THEN NaN
    ELSE SNorm(QDiv(a.p, b.p), QDiv(a.s, b.p), a.D)

RECURSIVE Newton(_, _)
Newton(n, x) ==
    LET y == (x + (n \div x)) \div 2
    IN  IF y >= x THEN x ELSE Newton(n, y)

\* floor of the square root of n >= 0
ISqrt(n) == IF n = 0 THEN 0 ELSE Newton(n, IF n < 46341 THEN n ELSE 46341)

IsSquare(n) == ISqrt(n) * ISqrt(n) = n

\* f32::sqrt of a rational: NaN below zero, exact when the rational is a square
SSqrt(a) ==
    IF a.nan \/ QSign(a.p) < 0 THEN NaN
    ELSE LET N == a.p.w * a.p.d + a.p.n
         IN  IF IsSquare(N) /\ IsSquare(a.p.d)
             THEN SQ(QRatio(ISqrt(N), ISqrt(a.p.d)))
             ELSE [nan |-> FALSE, p |-> Q0, s |-> Q1, D |-> a.p]

\* the sign of p + s*sqrt(D)
SSign(a) ==
    LET sp == QSign(a.p)
        ss == QSign(a.s)
    IN  IF ss = 0 THEN sp
        ELSE IF sp = 0 THEN ss
        ELSE IF sp = ss THEN sp
        ELSE LET q == QDiv(a.p, a.s)
             IN  sp * QSign(QSub(QMul(q, q), a.D))

\* the comparisons of f32: false on NaN
SLt0(a) == ~a.nan /\ SSign(a) < 0

SGe0(a) == ~a.nan /\ SSign(a) >= 0

SGt0(a) == ~a.nan /\ SSign(a) > 0

\* f32 ==: equal values, whatever radicand they are written over
SEq(a, b) ==
    /\ ~a.nan /\ ~b.nan
    /\ a.p = b.p
    /\ QSign(a.s) = QSign(b.s)
    /\ QMul(QMul(a.s, a.s), a.D) = QMul(QMul(b.s, b.s), b.D)

(***************************************************************************)
(* Vec3                                                                    *)
(***************************************************************************)
Vec3_new(x, y, z) == [x |-> x, y |-> y, z |-> z]

eq(a, b) == SEq(a.x, b.x) /\ SEq(a.y, b.y) /\ SEq(a.z, b.z)

neg(v) == [x |-> SNeg(v.x), y |-> SNeg(v.y), z |-> SNeg(v.z)]

add(a, b) == [x |-> SAdd(a.x, b.x), y |-> SAdd(a.y, b.y), z |-> SAdd(a.z, b.z)]

sub(a, b) == add(a, neg(b))

mul(v, k) == [x |-> SMul(v.x, k), y |-> SMul(v.y, k), z |-> SMul(v.z, k)]

div(v, k) == [x |-> SDiv(v.x, k), y |-> SDiv(v.y, k), z |-> SDiv(v.z, k)]

length(v) == SSqrt(SAdd(SAdd(SMul(v.x, v.x), SMul(v.y, v.y)), SMul(v.z, v.z)))

\* cross with the y component's terms in the order of the x and z components
cross_y_swapped(a, b) ==
    [x |-> SSub(SMul(a.y, b.z), SMul(b.y, a.z)),
     y |-> SSub(SMul(a.x, b.z), SMul(b.x, a.z)),
     z |-> SSub(SMul(a.x, b.y), SMul(b.x, a.y))]

cross(a, b) ==
    [x |-> SSub(SMul(a.y, b.z), SMul(b.y, a.z)),
     y |-> SSub(SMul(a.z, b.x), SMul(b.z, a.x)),
     z |-> SSub(SMul(a.x, b.y), SMul(b.x, a.y))]

dot(a, b) == SAdd(SAdd(SMul(a.x, b.x), SMul(a.y, b.y)), SMul(a.z, b.z))

(***************************************************************************)
(* Ray, Sphere                                                             *)
(***************************************************************************)
Ray(origin, direction) == [origin |-> origin, direction |-> direction]

Sphere(radius, position) == [radius |-> radius, position |-> position]

None == [some |-> FALSE, t |-> NaN]

Some(t) == [some |-> TRUE, t |-> t]

NoneVec == [some |-> FALSE, v |-> Vec3_new(NaN, NaN, NaN)]

SomeVec(v) == [some |-> TRUE, v |-> v]

\* intersect_t treating a zero discriminant as a miss
intersect_t_roots_tangent_miss(a, b, c, discriminant, t1, t2) ==
    [a |-> a, b |-> b, c |-> c, discriminant |-> discriminant, t1 |-> t1, t2 |-> t2,
     ret |-> IF ~SGt0(discriminant) THEN None
             ELSE IF SGe0(t1) THEN Some(t1)
             ELSE IF SGt0(t2) THEN Some(t2)
             ELSE None]

\* intersect_t accepting t2 = 0
intersect_t_roots_t2_ge(a, b, c, discriminant, t1, t2) ==
    [a |-> a, b |-> b, c |-> c, discriminant |-> discriminant, t1 |-> t1, t2 |-> t2,
     ret |-> IF SLt0(discriminant) THEN None
             ELSE IF SGe0(t1) THEN Some(t1)
             ELSE IF SGe0(t2) THEN Some(t2)
             ELSE None]

\* intersect_t, one operator per group of its locals (a local is a parameter
\* of the operators after it); the record keeps the locals, ret is what the
\* function returns
intersect_t_roots(a, b, c, discriminant, t1, t2) ==
    [a |-> a, b |-> b, c |-> c, discriminant |-> discriminant, t1 |-> t1, t2 |-> t2,
     ret |-> IF SLt0(discriminant) THEN None
             ELSE IF SGe0(t1) THEN Some(t1)
             ELSE IF SGt0(t2) THEN Some(t2)
             ELSE None]

\* the roots for a direction taken to be of unit length: divided by 2, not 2a
intersect_t_discriminant_unit(a, b, c, discriminant) ==
    intersect_t_roots(a, b, c, discriminant,
        SDiv(SSub(SNeg(b), SSqrt(discriminant)), F(2)),
        SDiv(SAdd(SNeg(b), SSqrt(discriminant)), F(2)))

intersect_t_discriminant(a, b, c, discriminant) ==
    intersect_t_roots(a, b, c, discriminant,
        SDiv(SSub(SNeg(b), SSqrt(discriminant)), SMul(F(2), a)),
        SDiv(SAdd(SNeg(b), SSqrt(discriminant)), SMul(F(2), a)))

intersect_t_abc(a, b, c) ==
    intersect_t_discriminant(a, b, c, SSub(SMul(b, b), SMul(SMul(F(4), a), c)))

intersect_t_os(s, r, os) ==
    intersect_t_abc(dot(r.direction, r.direction),
                    SMul(F(2), dot(r.direction, os)),
                    SSub(dot(os, os), SMul(s.radius, s.radius)))

intersect_t_locals(s, r) == intersect_t_os(s, r, sub(r.origin, s.position))

intersect_t(s, r) == intersect_t_locals(s, r).ret

\* intersect stepping back along the ray
intersect_match_backwards(r, found) ==
    IF ~found.some THEN NoneVec
    ELSE SomeVec(sub(r.origin, mul(r.direction, found.t)))

intersect_match(r, found) ==
    IF ~found.some THEN NoneVec
    ELSE SomeVec(add(r.origin, mul(r.direction, found.t)))

intersect(s, r) == intersect_match(r, intersect_t(s, r))

(***************************************************************************)
(* Camera and pixel colours                                                *)
(***************************************************************************)
WIDTH == 255

HEIGHT == 255

SCALE == 255

Camera_new(position, direction, height) ==
    [position |-> position, direction |-> direction, height |-> height]

width_of(w, height) == mul(div(w, length(w)), length(height))

width(cam) == width_of(cross(cam.direction, cam.height), cam.height)

ray_offsets(cam, vertical_offset, horizontal_offset) ==
    Ray(cam.position,
        add(add(cam.direction, mul(cam.height, vertical_offset)),
            mul(width(cam), horizontal_offset)))

\* Camera::ray with the pixel coordinates crossed back
ray_swapped(cam, x, y) ==
    ray_offsets(cam, SSub(SDiv(F(y), F(HEIGHT)), SQ(QRatio(1, 2))),
                     SSub(SDiv(F(x), F(WIDTH)), SQ(QRatio(1, 2))))

ray(cam, x, y) ==
    ray_offsets(cam, SSub(SDiv(F(x), F(WIDTH)), SQ(QRatio(1, 2))),
                     SSub(SDiv(F(y), F(HEIGHT)), SQ(QRatio(1, 2))))

\* A colour channel: a byte, or the byte ((t-1.9)*1000.0) as u8 held by its t
\* (the truncation of an f32 is not computed).
U8(n) == [u8 |-> n, of_t |-> None]

F32AsU8(t) == [u8 |-> -1, of_t |-> Some(t)]

U16(n) == n % 65536

\* get_gradient_color multiplying in 8 bits
get_gradient_color_u8(x, y) ==
    <<U8(((x * SCALE) % 256) \div WIDTH),
      U8(((y * SCALE) % 256) \div HEIGHT),
      U8(0), U8(255)>>

get_gradient_color(x, y) ==
    <<U8(U16(U16(x * SCALE) \div WIDTH) % 256),
      U8(U16(U16(y * SCALE) \div HEIGHT) % 256),
      U8(0), U8(255)>>

\* the scene get_raydistance_color builds on every call
scene_camera ==
    Camera_new(Vec3_new(F(-10), F(0), F(0)),
               Vec3_new(F(10), F(0), F(0)),
               Vec3_new(F(0), F(1), F(0)))

scene_sphere == Sphere(F(1), Vec3_new(F(10), F(0), F(0)))

\* get_raydistance_color with its locals kept: color is what it returns
raydistance_match(x, y, r, found) ==
    [some |-> TRUE, x |-> x, y |-> y, ray |-> r, found |-> found,
     color |-> IF ~found.some THEN get_gradient_color(x, y)
               ELSE <<F32AsU8(found.t), U8(0), U8(0), U8(255)>>]

raydistance_ray(x, y, r) == raydistance_match(x, y, r, intersect_t(scene_sphere, r))

raydistance_locals(x, y) == raydistance_ray(x, y, ray(scene_camera, x, y))

get_raydistance_color(x, y) == raydistance_locals(x, y).color

(***************************************************************************)
(* The solver on bounded inputs: a sphere and a ray with integer           *)
(* components are drawn, then intersect_t, intersect and the same two on   *)
(* the ray with its direction scaled by k are applied.                     *)
(***************************************************************************)
MaxCoord == 2

MaxDir == 1

MaxRadius == 2

MaxScale == 3

IntVec(x, y, z) == Vec3_new(F(x), F(y), F(z))

Origins == {IntVec(x, y, z) : x, y \in -MaxCoord..MaxCoord, z \in 0..1}

Directions == {IntVec(x, y, z) : x, y, z \in -MaxDir..MaxDir}

Positions == {IntVec(0, 0, 0), IntVec(1, 0, -1)}

Spheres == {Sphere(F(rad), pos) : rad \in 0..MaxRadius, pos \in Positions}

Idle == [some |-> FALSE]

SolverIdle ==
    /\ sphere = Idle /\ rin = Idle /\ kscale = 0
    /\ tcall = Idle /\ pcall = Idle /\ scaled = Idle

VecIdle == va = Idle /\ vb = Idle /\ products = Idle

RenderIdle ==
    /\ binary = FALSE /\ header = <<>> /\ i = 0 /\ j = 0 /\ emitted = 0
    /\ out = Idle /\ px = Idle
    /\ frame = <<>> /\ control_flow = "Poll" /\ event = Idle /\ nevents = 0

SolverInit ==
    /\ VecIdle /\ RenderIdle
    /\ phase = "input"
    /\ sphere \in Spheres
    /\ rin \in {Ray(o, d) : o \in Origins, d \in Directions}
    /\ kscale = 1
    /\ tcall = Idle
    /\ pcall = Idle
    /\ scaled = Idle

both(s, r) == [t |-> intersect_t(s, r), p |-> intersect(s, r)]

CallIntersectT ==
    /\ phase = "input"
    /\ tcall' = intersect_t_locals(sphere, rin)
    /\ phase' = "intersect_t"
    /\ UNCHANGED <<sphere, rin, kscale, pcall, scaled, vec_vars, render_vars>>

CallIntersect ==
    /\ phase = "intersect_t"
    /\ pcall' = intersect(sphere, rin)
    /\ phase' = "intersect"
    /\ UNCHANGED <<sphere, rin, kscale, tcall, scaled, vec_vars, render_vars>>

CallScaled ==
    /\ phase = "intersect"
    /\ \E n \in 2..MaxScale :
        /\ kscale' = n
        /\ scaled' = both(sphere, Ray(rin.origin, mul(rin.direction, F(n))))
    /\ phase' = "scaled"
    /\ UNCHANGED <<sphere, rin, tcall, pcall, vec_vars, render_vars>>

SolverNext == CallIntersectT \/ CallIntersect \/ CallScaled

SolverSpec == SolverInit /\ [][SolverNext]_vars

(***************************************************************************)
(* Vec3::cross on bounded inputs: two vectors whose components are small   *)
(* integers or NaN.                                                        *)
(***************************************************************************)
MaxVec == 1

Components == {F(n) : n \in -MaxVec..MaxVec} \cup {NaN}

Vectors == {Vec3_new(x, y, z) : x, y, z \in Components}

VecInit ==
    /\ SolverIdle /\ RenderIdle
    /\ phase = "input"
    /\ va \in Vectors
    /\ vb \in Vectors
    /\ products = Idle

CallCross ==
    /\ phase = "input"
    /\ products' = [ab |-> cross(va, vb), ba |-> cross(vb, va), aa |-> cross(va, va)]
    /\ phase' = "cross"
    /\ UNCHANGED <<va, vb, solver_vars, render_vars>>

VecNext == CallCross

VecSpec == VecInit /\ [][VecNext]_vars

(***************************************************************************)
(* main: write_ppm, or run_winit and its event handler.  The handler is    *)
(* called with any sequence of events, MaxEvents of them at most.          *)
(***************************************************************************)
MaxEvents == 3

RenderInit ==
    /\ SolverIdle /\ VecIdle /\ RenderIdle
    /\ phase = "main"

\* main with -w absent: write_ppm prints the header and enters its loops
MainWritePpm ==
    /\ phase = "main"
    /\ \E b \in BOOLEAN :
        /\ binary' = b
        /\ header' = <<IF b THEN "P6" ELSE "P3", WIDTH, HEIGHT, SCALE>>
    /\ phase' = "write_ppm"
    /\ UNCHANGED <<i, j, emitted, out, px, winit_vars, solver_vars, vec_vars>>

\* one pass of the inner loop of write_ppm: P6 writes the first three bytes of
\* the colour, P3 prints them in decimal
WritePixel ==
    /\ phase = "write_ppm"
    /\ i < HEIGHT /\ j < WIDTH
    /\ px' = raydistance_locals(i, j)
    /\ out' = [some |-> TRUE, k |-> emitted, text |-> ~binary, rgb |-> SubSeq(px'.color, 1, 3)]
    /\ emitted' = emitted + 1
    /\ IF j + 1 < WIDTH THEN j' = j + 1 /\ i' = i /\ phase' = phase
       ELSE /\ j' = 0
            /\ i' = i + 1
            /\ phase' = IF i + 1 < HEIGHT THEN phase ELSE "done"
    /\ UNCHANGED <<binary, header, winit_vars, solver_vars, vec_vars>>

frame_indices == 0..(WIDTH * HEIGHT - 1)

\* Pixels::new: a frame of WIDTH*HEIGHT pixels of four bytes, all zero
new_frame == [n \in frame_indices |-> <<U8(0), U8(0), U8(0), U8(0)>>]

\* main with -w: run_winit builds the window and the pixel buffer and runs the loop
MainRunWinit ==
    /\ phase = "main"
    /\ frame' = new_frame
    /\ control_flow' = "Poll"
    /\ phase' = "event_loop"
    /\ UNCHANGED <<event, nevents, ppm_vars, px, solver_vars, vec_vars>>

\* the frame the MainEventsCleared arm writes: pixel n of the buffer gets
\* get_raydistance_color(n % WIDTH, n / WIDTH)
redraw == [n \in frame_indices |-> get_raydistance_color(n % WIDTH, n \div WIDTH)]

\* the arms of the handler's match: the frame and control flow each leaves
on_close_requested(fr, cf) == [frame |-> fr, control_flow |-> "Exit"]

\* the MainEventsCleared arm leaving on every redraw
on_main_events_cleared_exits(fr, cf, render_ok) ==
    [frame |-> redraw, control_flow |-> "Exit"]

on_main_events_cleared(fr, cf, render_ok) ==
    [frame |-> redraw, control_flow |-> IF render_ok THEN cf ELSE "Exit"]

on_other(fr, cf) == [frame |-> fr, control_flow |-> cf]

Handled(kind, render_ok, res) ==
    /\ phase = "event_loop"
    /\ nevents < MaxEvents
    /\ event' = [some |-> TRUE, kind |-> kind, render_ok |-> render_ok]
    /\ nevents' = nevents + 1
    /\ frame' = res.frame
    /\ control_flow' = res.control_flow
    /\ UNCHANGED <<phase, ppm_vars, solver_vars, vec_vars>>

CloseRequested ==
    /\ Handled("CloseRequested", TRUE, on_close_requested(frame, control_flow))
    /\ UNCHANGED px

MainEventsCleared ==
    /\ \E render_ok \in BOOLEAN :
        Handled("MainEventsCleared", render_ok,
                on_main_events_cleared(frame, control_flow, render_ok))
    /\ px' = raydistance_locals((WIDTH * HEIGHT - 1) % WIDTH, (WIDTH * HEIGHT - 1) \div WIDTH)

OtherEvent ==
    /\ Handled("Other", TRUE, on_other(frame, control_flow))
    /\ UNCHANGED px

\* the loop ends once an iteration finishes with the control flow at Exit
LoopExit ==
    /\ phase = "event_loop"
    /\ control_flow = "Exit"
    /\ phase' = "done"
    /\ UNCHANGED <<render_vars, solver_vars, vec_vars>>

RenderNext ==
    \/ MainWritePpm \/ WritePixel
    \/ MainRunWinit \/ CloseRequested \/ MainEventsCleared \/ OtherEvent \/ LoopExit

RenderSpec == RenderInit /\ [][RenderNext]_vars

(***************************************************************************)
(* The ray/sphere geometry stated on the integer inputs, without the       *)
(* solver: the coefficients of |O + tD - S|^2 = radius^2 as a quadratic    *)
(* in t, and whether it has a root t >= 0.                                 *)
(***************************************************************************)
Z(x) == x.p.w

GeoA == Z(rin.direction.x) * Z(rin.direction.x) + Z(rin.direction.y) * Z(rin.direction.y)
        + Z(rin.direction.z) * Z(rin.direction.z)

GeoB == 2 * (Z(rin.direction.x) * (Z(rin.origin.x) - Z(sphere.position.x))
             + Z(rin.direction.y) * (Z(rin.origin.y) - Z(sphere.position.y))
             + Z(rin.direction.z) * (Z(rin.origin.z) - Z(sphere.position.z)))

GeoC == (Z(rin.origin.x) - Z(sphere.position.x)) * (Z(rin.origin.x) - Z(sphere.position.x))
        + (Z(rin.origin.y) - Z(sphere.position.y)) * (Z(rin.origin.y) - Z(sphere.position.y))
        + (Z(rin.origin.z) - Z(sphere.position.z)) * (Z(rin.origin.z) - Z(sphere.position.z))
        - Z(sphere.radius) * Z(sphere.radius)

GeoDisc == GeoB * GeoB - 4 * GeoA * GeoC

NonZeroDirection == GeoA > 0

\* the origin is inside or on the sphere, or the sphere is ahead and the line meets it
HasForwardRoot == GeoC <= 0 \/ (GeoB < 0 /\ GeoDisc >= 0)

\* the origin is on the surface and the direction points strictly away from the centre
OnSurfaceOutward == GeoC = 0 /\ GeoB > 0

PointAt(t) == add(rin.origin, mul(rin.direction, t))

SquaredDistance(v) == dot(sub(v, sphere.position), sub(v, sphere.position))

OnSurface(v) == SEq(SquaredDistance(v), SMul(sphere.radius, sphere.radius))

\* the quadratic's other root, by the sum of the roots -b/a
OtherRoot(t) == SSub(SQ(QRatio(-GeoB, GeoA)), t)

Solved == phase # "input"

\* C1: for a ray with non-zero direction, intersect_t returns Some(t) with t the
\* smallest t >= 0 at which origin + t*direction is on the sphere's surface, and
\* None exactly when there is no such t >= 0.
C1_NearestForwardRoot ==
    (Solved /\ NonZeroDirection) =>
        /\ tcall.ret.some <=> HasForwardRoot
        /\ tcall.ret.some =>
            /\ SGe0(tcall.ret.t)
            /\ OnSurface(PointAt(tcall.ret.t))
            /\ \/ SLt0(OtherRoot(tcall.ret.t))
               \/ SGe0(SSub(OtherRoot(tcall.ret.t), tcall.ret.t))

\* C2: a ray with non-zero direction whose discriminant is exactly zero is a hit.
C2_TangentIsHit ==
    (Solved /\ NonZeroDirection /\ GeoDisc = 0) => tcall.ret.some

\* C2 (amended): a ray with non-zero direction whose discriminant is exactly zero
\* is a hit, at t = -b/(2a), exactly when its tangent point is not behind the
\* origin (b <= 0), and a miss when it is behind (b > 0).
C2_TangentIsHitWhenAhead ==
    (Solved /\ NonZeroDirection /\ GeoDisc = 0) =>
        /\ tcall.ret.some <=> GeoB <= 0
        /\ tcall.ret.some => SEq(tcall.ret.t, SQ(QRatio(-GeoB, 2 * GeoA)))

C2_Witness ==
    /\ Solved /\ NonZeroDirection /\ GeoDisc = 0
    /\ Z(sphere.radius) > 0 /\ GeoB < 0
    /\ tcall.ret.some

NoNaN(v) == ~v.x.nan /\ ~v.y.nan /\ ~v.z.nan

ZeroVec == IntVec(0, 0, 0)

AxisX == IntVec(1, 0, 0)

AxisY == IntVec(0, 1, 0)

AxisZ == IntVec(0, 0, 1)

CrossLaws ==
    /\ eq(products.ab, neg(products.ba))
    /\ eq(products.aa, ZeroVec)
    /\ (va = AxisX /\ vb = AxisY) => eq(products.ab, AxisZ)
    /\ (va = AxisY /\ vb = AxisZ) => eq(products.ab, AxisX)
    /\ (va = AxisZ /\ vb = AxisX) => eq(products.ab, AxisY)

\* C5: for all vectors a and b, cross(a, b) == -cross(b, a) and cross(a, a) is the
\* zero vector under Vec3's equality, and the unit axes follow the right-hand rule.
C5_CrossLawsAllVectors == (phase = "cross") => CrossLaws

\* C5 (amended): the same for all vectors a and b with no NaN component (NaN is
\* not equal to itself, so with one the products compare unequal).
C5_CrossLawsNoNaN == (phase = "cross" /\ NoNaN(va) /\ NoNaN(vb)) => CrossLaws

C5_Witness ==
    /\ phase = "cross" /\ NoNaN(va) /\ NoNaN(vb)
    /\ va = AxisZ /\ vb = AxisX
    /\ eq(products.ab, AxisY)
    /\ eq(products.ba, neg(AxisY))

(***************************************************************************)
(* Camera::ray, the colours and the two consumers                          *)
(***************************************************************************)
\* the scene camera's derived width vector: as long as height, perpendicular to
\* direction (x) and height (y)
SceneWidth == IntVec(0, 0, 1)

OffsetOf(n, size) == QRatio(2 * n - size, 2 * size)

QLess(a, b) == QSign(QSub(a, b)) < 0

InHalfOpenHalf(q) == ~QLess(q, QRatio(-1, 2)) /\ QLess(q, QRatio(1, 2))

\* C6: for x in [0, WIDTH) and y in [0, HEIGHT), Camera::ray(x, y) starts at the
\* camera's position and has direction direction + height*v + width*h with
\* v = x/WIDTH - 0.5 and h = y/HEIGHT - 0.5, both in [-0.5, 0.5).
C6_RayOfPixel ==
    px.some =>
        /\ px.x \in 0..(WIDTH - 1) /\ px.y \in 0..(HEIGHT - 1)
        /\ px.ray.origin = scene_camera.position
        /\ InHalfOpenHalf(OffsetOf(px.x, WIDTH))
        /\ InHalfOpenHalf(OffsetOf(px.y, HEIGHT))
        /\ eq(px.ray.direction,
              add(add(scene_camera.direction,
                      mul(scene_camera.height, SQ(OffsetOf(px.x, WIDTH)))),
                  mul(SceneWidth, SQ(OffsetOf(px.y, HEIGHT)))))

C6_Witness ==
    /\ px.some /\ px.x = 0 /\ px.y = HEIGHT - 1
    /\ px.ray.direction.y = SQ(QRatio(-1, 2))
    /\ px.ray.direction.z = SQ(QRatio(HEIGHT - 2, 2 * HEIGHT))

\* C7: a pixel whose ray misses gets exactly [x*255/WIDTH, y*255/HEIGHT, 0, 255]:
\* the 16-bit products do not wrap and the quotients fit 8 bits; every pixel has
\* blue 0 and alpha 255.
C7_GradientOnMiss ==
    px.some =>
        /\ px.color[3] = U8(0)
        /\ px.color[4] = U8(255)
        /\ ~px.found.some =>
            /\ px.x * SCALE <= 65535 /\ px.y * SCALE <= 65535
            /\ (px.x * SCALE) \div WIDTH <= 255 /\ (px.y * SCALE) \div HEIGHT <= 255
            /\ px.color = <<U8((px.x * SCALE) \div WIDTH), U8((px.y * SCALE) \div HEIGHT),
                            U8(0), U8(255)>>

C7_Witness ==
    /\ px.some /\ ~px.found.some
    /\ px.x = WIDTH - 1 /\ px.y = HEIGHT - 1
    /\ px.color = <<U8(254), U8(254), U8(0), U8(255)>>

\* C8: write_ppm emits WIDTH*HEIGHT pixels and stops, a redraw fills WIDTH*HEIGHT
\* pixels, and in both the pixel at row-major index k is
\* get_raydistance_color(k mod WIDTH, k div WIDTH).
C8_SameImageRowMajor ==
    /\ out.some =>
        out.rgb = SubSeq(get_raydistance_color(out.k % WIDTH, out.k \div WIDTH), 1, 3)
    /\ (out.some /\ phase = "done") => emitted = WIDTH * HEIGHT
    /\ emitted <= WIDTH * HEIGHT
    /\ (event.some /\ event.kind = "MainEventsCleared") =>
        /\ DOMAIN frame = 0..(WIDTH * HEIGHT - 1)
        /\ \A n \in {0, 1, WIDTH, WIDTH * HEIGHT - 1} :
            frame[n] = get_raydistance_color(n % WIDTH, n \div WIDTH)

\* C9: handling CloseRequested always sets Exit; Exit is set only by
\* CloseRequested or by a MainEventsCleared whose render fails; every
\* MainEventsCleared writes all WIDTH*HEIGHT pixels from get_raydistance_color,
\* whatever the frame held; any other event changes neither frame nor control flow.
C9_HandlerArms ==
    [][(nevents' = nevents + 1) =>
        /\ (event'.kind = "CloseRequested") =>
            (control_flow' = "Exit" /\ frame' = frame)
        /\ (control_flow # "Exit" /\ control_flow' = "Exit") =>
            \/ event'.kind = "CloseRequested"
            \/ event'.kind = "MainEventsCleared" /\ ~event'.render_ok
        /\ (event'.kind = "MainEventsCleared") =>
            /\ frame' = redraw
            /\ DOMAIN frame' = 0..(WIDTH * HEIGHT - 1)
            /\ \A n \in {0, 1, WIDTH, WIDTH * HEIGHT - 1} :
                frame'[n] = get_raydistance_color(n % WIDTH, n \div WIDTH)
            /\ event'.render_ok => control_flow' = control_flow
        /\ (event'.kind = "Other") =>
            (frame' = frame /\ control_flow' = control_flow)
    ]_vars

C9_Witness ==
    /\ phase = "event_loop" /\ nevents = 3
    /\ event.some /\ event.kind = "CloseRequested"
    /\ control_flow = "Exit"
    /\ frame = redraw

====
